---- MODULE Spec2Model ----
(***************************************************************************)
(* Model of src/app.py: the option-strategy scanner fetch_market_data, its *)
(* helpers process_chain / black_scholes_delta / build_spread, and the     *)
(* best-pick and earnings-risk code that renders the result.               *)
(*                                                                         *)
(* Units.  Prices and strikes are integers in cents, deltas are integers   *)
(* in hundredths, dates are day numbers.  roi and annualized_return are    *)
(* exact rationals [n, d] with d >= 0; d = 0 is the +inf that numpy float  *)
(* division by zero produces.  Strings are sequences of tokens.            *)
(***************************************************************************)
EXTENDS Integers, Sequences, FiniteSets, TLC

VARIABLES
    strat_code,        \* argument strat_code
    spread_width,      \* argument spread_width, dollars
    strike_range_pct,  \* argument strike_range_pct
    history_empty,     \* stock.history(...).empty
    current_price,     \* history['Close'].iloc[-1]
    next_earnings,     \* get_earnings_date(stock)
    expirations,       \* stock.options
    chain,             \* what stock.option_chain(d) answers for each listed d
    today,             \* datetime.now().date()
    pc,                \* position in fetch_market_data / the rendering code
    target_dates,      \* the (date, days) pairs the same-expiration loop visits
    i,                 \* index of the loop over target_dates
    far_d,             \* far expiration picked by the PMCC / CALENDAR branch
    near_d,            \* near expiration picked by the PMCC / CALENDAR branch
    all_opps,          \* the list all_opps
    result,            \* the tuple fetch_market_data returns
    best,              \* the frame best (at most one row)
    earnings_msg,      \* what the earnings-risk check displayed
    delta_call         \* a call of black_scholes_delta: arguments and return

vars == <<strat_code, spread_width, strike_range_pct, history_empty,
          current_price, next_earnings, expirations, chain, today, pc,
          target_dates, i, far_d, near_d, all_opps, result, best,
          earnings_msg, delta_call>>

inputs == <<strat_code, spread_width, strike_range_pct, history_empty,
            current_price, next_earnings, expirations, chain, today>>

-----------------------------------------------------------------------------
(* Arithmetic helpers *)

Abs(x) == IF x < 0 THEN -x ELSE x

Min(a, b) == IF a <= b THEN a ELSE b

RECURSIVE GCD(_, _)
GCD(a, b) == IF b = 0 THEN a ELSE GCD(b, a % b)

\* The float n / d as an exact fraction in lowest terms, d >= 0.
Rat(n, d) ==
    LET g == GCD(Abs(n), Abs(d))
        s == IF d < 0 THEN -1 ELSE 1
    IN  IF g = 0 THEN [n |-> 0, d |-> 0]
        ELSE [n |-> s * (n \div g), d |-> Abs(d) \div g]

RatZero == [n |-> 0, d |-> 1]

RatLeq(a, b) == a.n * b.d <= b.n * a.d

RatLess(a, b) == a.n * b.d < b.n * a.d

RatPos(a) == a.n > 0

RECURSIVE FlattenSeq(_)
FlattenSeq(ss) == IF ss = <<>> THEN <<>> ELSE Head(ss) \o FlattenSeq(Tail(ss))

Range(s) == {s[k] : k \in 1..Len(s)}

-----------------------------------------------------------------------------
(* Strings: a date string is one token, a literal is one token. *)

Lit(s) == [lit |-> s, date |-> 0]

DateStr(d) == [lit |-> "%Y-%m-%d", date |-> d]

\* str.split(' / ')[-1]
RECURSIVE LastPart(_)
LastPart(s) ==
    IF \E k \in 1..Len(s) : s[k] = Lit(" / ")
    THEN LastPart(Tail(s))
    ELSE s

\* str.replace(old, '')
Replace(s, old) == SelectSeq(s, LAMBDA t : t # Lit(old))

\* datetime.strptime(s, "%Y-%m-%d") succeeds
CanParse(s) == Len(s) = 1 /\ s[1].lit = "%Y-%m-%d"

\* datetime.strptime(s, "%Y-%m-%d").date()
ParseDate(s) == s[1].date

-----------------------------------------------------------------------------
(* Strategy codes and the sidebar's categories *)

IncomeCodes == {"CSP", "CC", "BULL_PUT", "BEAR_CALL", "IRON_CONDOR"}

SpeculationCodes == {"LONG_CALL", "LONG_PUT", "STRADDLE"}

AdvancedCodes == {"JADE_LIZARD", "RATIO"}

TimeCodes == {"PMCC", "CALENDAR"}

LongTermCodes == {"LEAPS_CALL"}

AllCodes == IncomeCodes \cup SpeculationCodes \cup AdvancedCodes
            \cup TimeCodes \cup LongTermCodes

category ==
    IF strat_code \in IncomeCodes THEN "Income"
    ELSE IF strat_code \in SpeculationCodes THEN "Speculation"
    ELSE IF strat_code \in AdvancedCodes THEN "Advanced"
    ELSE IF strat_code \in TimeCodes THEN "Time"
    ELSE "Long Term"

\* The messages fetch_market_data returns as its fifth component.
ErrNone == "None"
ErrNoPrice == "cannot get price"
ErrNoChain == "no option chain"
ErrNoOpps == "no option matches the strategy"
ErrApi == "API error"

-----------------------------------------------------------------------------
(* Pricing primitive and chain normaliser *)

\* cdf_d1 stands for si.norm.cdf(d1) of the row, in hundredths.
black_scholes_delta(T_days, sigma, option_type, cdf_d1) ==
    IF T_days <= 0 \/ sigma <= 0 THEN 0
    ELSE IF option_type = "call" THEN cdf_d1
    ELSE cdf_d1 - 100

\* A float: a number in hundredths, or NaN.
Num(v) == [nan |-> FALSE, v |-> v]

NaN == [nan |-> TRUE, v |-> 0]

\* S / K of two float64 operands: division by zero gives +-inf or nan.
Quotient(S, K) ==
    IF K = 0
    THEN IF S > 0 THEN "+inf" ELSE IF S < 0 THEN "-inf" ELSE "nan"
    ELSE IF S = 0 THEN "zero"
    ELSE IF (S > 0) = (K > 0) THEN "pos"
    ELSE "neg"

\* np.log(q): nan below zero, -inf at zero; a warning, never an exception.
NpLog(q) ==
    CASE q = "pos" -> "finite"
      [] q = "zero" -> "-inf"
      [] q = "+inf" -> "+inf"
      [] OTHER -> "nan"

\* si.norm.cdf(d1); d1 has the kind of the logarithm since sigma * sqrt(T) > 0.
NormCdf(d1, cdf_d1) ==
    CASE d1 = "finite" -> Num(cdf_d1)
      [] d1 = "-inf" -> Num(0)
      [] d1 = "+inf" -> Num(100)
      [] OTHER -> NaN

\* black_scholes_delta for arbitrary S and K.
black_scholes_delta_float(S, K, T_days, sigma, option_type, cdf_d1) ==
    IF T_days <= 0 \/ sigma <= 0 THEN Num(0)
    ELSE LET c == NormCdf(NpLog(Quotient(S, K)), cdf_d1)
         IN  IF c.nan THEN NaN
             ELSE Num(black_scholes_delta(T_days, sigma, option_type, c.v))

MinOpenInterest == 5

process_chain(df, days_to_exp, type) ==
    LET tagged == [k \in 1..Len(df) |->
            [strike |-> df[k].strike, bid |-> df[k].bid, ask |-> df[k].ask,
             openInterest |-> df[k].openInterest, type |-> type,
             delta |-> black_scholes_delta(days_to_exp,
                           df[k].impliedVolatility, type, df[k].cdf_d1)]]
    IN  SelectSeq(tagged, LAMBDA x : x.openInterest > MinOpenInterest /\ x.bid > 0)

Upper(t) == IF t = "put" THEN "PUT" ELSE "CALL"

Leg(side, type, strike) == [side |-> side, type |-> type, strike |-> strike]

-----------------------------------------------------------------------------
(* Leg matcher: build_spread *)

MatchTol == 10

MinCredit == 1

Target(s, width) ==
    IF s.type = "put" THEN s.strike - width ELSE s.strike + width

\* Variant: the looser tolerance of the ratio builder.
Matches_wide(longs, target) ==
    SelectSeq(longs, LAMBDA l : Abs(l.strike - target) < 100)

Matches(longs, target) ==
    SelectSeq(longs, LAMBDA l : Abs(l.strike - target) < MatchTol)

SpreadRecord(s, l, width) ==
    LET net == s.bid - l.ask
        loss == width - net
    IN  [price_display |-> net, capital |-> loss * 100, roi |-> Rat(net, loss),
         delta |-> s.delta - l.delta,
         legs |-> <<Leg("SELL", Upper(s.type), s.strike),
                    Leg("BUY", Upper(l.type), l.strike)>>]

SpreadsFor(longs, s, width) ==
    LET matches == Matches(longs, Target(s, width))
    IN  IF matches # <<>>
        THEN LET l == matches[1]
             IN  IF s.bid - l.ask > MinCredit
                 THEN <<SpreadRecord(s, l, width)>>
                 ELSE <<>>
        ELSE <<>>

\* width in cents
build_spread(longs, shorts, width) ==
    FlattenSeq([k \in 1..Len(shorts) |-> SpreadsFor(longs, shorts[k], width)])

-----------------------------------------------------------------------------
(* Strategy builders of the same-expiration loop (one expiration each) *)

\* strike within current_price * (1 -/+ strike_range_pct / 100)
InBounds(df, price, pct) ==
    SelectSeq(df, LAMBDA x : x.strike * 100 >= price * (100 - pct)
                             /\ x.strike * 100 <= price * (100 + pct))

Opp(date_str, days, price_display, capital, roi, delta, legs) ==
    [expiration_date |-> date_str, days_to_exp |-> days,
     price_display |-> price_display, capital |-> capital, roi |-> roi,
     delta |-> delta, legs |-> legs]

\* r_dict.update({'expiration_date': date, 'days_to_exp': days})
Dated(r, date, days) ==
    Opp(<<DateStr(date)>>, days, r.price_display, r.capital, r.roi, r.delta,
        r.legs)

CspOpps(puts, date, days) ==
    LET df == SelectSeq(puts, LAMBDA x : x.delta > -35 /\ x.delta < -15)
    IN  [k \in 1..Len(df) |->
            Opp(<<DateStr(date)>>, days, df[k].bid, df[k].strike * 100,
                Rat(df[k].bid, df[k].strike), df[k].delta,
                <<Leg("SELL", "PUT", df[k].strike)>>)]

CcOpps(calls, date, days, price) ==
    LET df == SelectSeq(calls, LAMBDA x : x.delta < 35 /\ x.delta > 15)
    IN  [k \in 1..Len(df) |->
            Opp(<<DateStr(date)>>, days, df[k].bid, price * 100,
                Rat(df[k].bid, price), df[k].delta,
                <<Leg("SELL", "CALL", df[k].strike)>>)]

\* roi = (current_price / ask) * 0.5
LongCallOpps(calls, date, days, price) ==
    LET df == SelectSeq(calls, LAMBDA x : x.delta > 40 /\ x.delta < 60)
    IN  [k \in 1..Len(df) |->
            Opp(<<DateStr(date)>>, days, df[k].ask, df[k].ask * 100,
                Rat(price, 2 * df[k].ask), df[k].delta,
                <<Leg("BUY", "CALL", df[k].strike)>>)]

LongPutOpps(puts, date, days, price) ==
    LET df == SelectSeq(puts, LAMBDA x : x.delta > -60 /\ x.delta < -40)
    IN  [k \in 1..Len(df) |->
            Opp(<<DateStr(date)>>, days, df[k].ask, df[k].ask * 100,
                Rat(price, 2 * df[k].ask), df[k].delta,
                <<Leg("BUY", "PUT", df[k].strike)>>)]

LeapsCallOpps(calls, date, days) ==
    LET df == SelectSeq(calls, LAMBDA x : x.delta > 85)
    IN  [k \in 1..Len(df) |->
            Opp(<<DateStr(date)>>, days, df[k].ask, df[k].ask * 100,
                RatZero, df[k].delta,
                <<Leg("BUY", "CALL", df[k].strike)>>)]

BullPutShorts(puts) == SelectSeq(puts, LAMBDA x : x.delta > -40 /\ x.delta < -20)

BullPutOpps(puts, date, days, width) ==
    LET res == build_spread(puts, BullPutShorts(puts), width)
    IN  [k \in 1..Len(res) |-> Dated(res[k], date, days)]

BearCallShorts(calls) == SelectSeq(calls, LAMBDA x : x.delta < 40 /\ x.delta > 20)

BearCallOpps(calls, date, days, width) ==
    LET res == build_spread(calls, BearCallShorts(calls), width)
    IN  [k \in 1..Len(res) |-> Dated(res[k], date, days)]

TopK == 3

\* df.head(3)
Head3(df) == SubSeq(df, 1, Min(TopK, Len(df)))

CondorPutSpreads(puts, width) ==
    build_spread(puts, SelectSeq(puts, LAMBDA x : x.delta > -25 /\ x.delta < -15),
                 width)

CondorCallSpreads(calls, width) ==
    build_spread(calls, SelectSeq(calls, LAMBDA x : x.delta < 25 /\ x.delta > 15),
                 width)

CondorPair(p, c, date, days, width) ==
    LET net == p.price_display + c.price_display
        loss == width - net
    IN  IF loss > 0
        THEN <<Opp(<<DateStr(date)>>, days, net, loss * 100, Rat(net, loss),
                   p.delta + c.delta, p.legs \o c.legs)>>
        ELSE <<>>

IronCondorOpps(calls, puts, date, days, width) ==
    LET p_spr == CondorPutSpreads(puts, width)
        c_spr == CondorCallSpreads(calls, width)
        p_list == Head3(p_spr)
        c_list == Head3(c_spr)
    IN  IF p_spr # <<>> /\ c_spr # <<>>
        THEN FlattenSeq([a \in 1..Len(p_list) |->
                 FlattenSeq([b \in 1..Len(c_list) |->
                     CondorPair(p_list[a], c_list[b], date, days, width)])])
        ELSE <<>>

JadeSlack == 50

JadeLizardOpps(calls, puts, date, days, width) ==
    LET s_p == SelectSeq(puts, LAMBDA x : x.delta > -30 /\ x.delta < -20)
        s_c == SelectSeq(calls, LAMBDA x : x.delta < 30 /\ x.delta > 20)
        c_spr == build_spread(calls, s_c, width)
    IN  IF s_p # <<>> /\ c_spr # <<>>
        THEN LET p == s_p[1]
             IN  FlattenSeq([k \in 1..Len(c_spr) |->
                     LET c == c_spr[k]
                         net == p.bid + c.price_display
                     IN  IF net > width - JadeSlack
                         THEN <<Opp(<<DateStr(date)>>, days, net, p.strike * 20,
                                    RatZero, p.delta + c.delta,
                                    <<Leg("SELL", "PUT", p.strike)>> \o c.legs)>>
                         ELSE <<>>])
        ELSE <<>>

RatioTol == 100

RatioFloor == -50

RatioOpps(calls, date, days, width) ==
    LET l_c == SelectSeq(calls, LAMBDA x : x.delta > 55 /\ x.delta < 65)
    IN  FlattenSeq([k \in 1..Len(l_c) |->
            LET l == l_c[k]
                target == l.strike + width
                s_c == SelectSeq(calls, LAMBDA x : Abs(x.strike - target) < RatioTol)
            IN  IF s_c # <<>>
                THEN LET s == s_c[1]
                         net == s.bid * 2 - l.ask
                     IN  IF net > RatioFloor
                         THEN <<Opp(<<DateStr(date)>>, days, net, s.strike * 20,
                                    RatZero, l.delta - 2 * s.delta,
                                    <<Leg("BUY", "CALL", l.strike),
                                      Leg("SELL x2", "CALL", s.strike)>>)>>
                         ELSE <<>>
                ELSE <<>>])

\* df.iloc[key.argsort()[:1]]: the first row whose key is smallest
Nearest(df, key) ==
    IF df = <<>> THEN <<>>
    ELSE LET k == CHOOSE k \in 1..Len(df) :
                      /\ \A j \in 1..Len(df) : key[k] <= key[j]
                      /\ \A j \in 1..(k - 1) : key[j] > key[k]
         IN  <<df[k]>>

\* p = atm_p.iloc[0] raises IndexError when puts is empty
StraddleRaises(calls, puts) == calls # <<>> /\ puts = <<>>

StraddleOpps(calls, puts, date, days) ==
    LET atm_c == Nearest(calls, [k \in 1..Len(calls) |-> Abs(calls[k].delta - 50)])
        atm_p == Nearest(puts, [k \in 1..Len(puts) |-> Abs(Abs(puts[k].delta) - 50)])
    IN  IF atm_c # <<>> /\ atm_p # <<>>
        THEN LET c == atm_c[1]
                 p == atm_p[1]
                 cost == c.ask + p.ask
             IN  <<Opp(<<DateStr(date)>>, days, cost, cost * 100, RatZero,
                       c.delta + p.delta,
                       <<Leg("BUY", "CALL", c.strike),
                         Leg("BUY", "PUT", p.strike)>>)>>
        ELSE <<>>

\* The candidates one expiration appends, from its processed, bounded chain.
StrategyOpps(code, calls, puts, date, days, price, width) ==
    CASE code = "CSP" -> CspOpps(puts, date, days)
      [] code = "CC" -> CcOpps(calls, date, days, price)
      [] code = "LONG_CALL" -> LongCallOpps(calls, date, days, price)
      [] code = "LONG_PUT" -> LongPutOpps(puts, date, days, price)
      [] code = "LEAPS_CALL" -> LeapsCallOpps(calls, date, days)
      [] code = "BULL_PUT" -> BullPutOpps(puts, date, days, width)
      [] code = "BEAR_CALL" -> BearCallOpps(calls, date, days, width)
      [] code = "IRON_CONDOR" -> IronCondorOpps(calls, puts, date, days, width)
      [] code = "JADE_LIZARD" -> JadeLizardOpps(calls, puts, date, days, width)
      [] code = "RATIO" -> RatioOpps(calls, date, days, width)
      [] code = "STRADDLE" -> StraddleOpps(calls, puts, date, days)
      [] OTHER -> <<>>

-----------------------------------------------------------------------------
(* The two-expiration branch: PMCC and CALENDAR *)

Days(d) == d - today

\* date_map: one (date, days) pair per listed expiration
date_map == [k \in 1..Len(expirations) |->
                [date |-> expirations[k], days |-> Days(expirations[k])]]

MinFar(code) == IF code = "PMCC" THEN 150 ELSE 60

FarDates(code) == SelectSeq(date_map, LAMBDA d : d.days > MinFar(code))

NearDates == SelectSeq(date_map, LAMBDA d : 20 <= d.days /\ d.days <= 45)

NearFarStr(near, far) ==
    <<Lit("Near: "), DateStr(near), Lit(" / "), Lit("Far: "), DateStr(far)>>

ShortLongStr(near, far) ==
    <<Lit("Short: "), DateStr(near), Lit(" / "), Lit("Long: "), DateStr(far)>>

PmccPair(l, s, near, far, near_days) ==
    LET debit == l.ask - s.bid
    IN  IF debit < s.strike - l.strike
        THEN <<Opp(NearFarStr(near, far), near_days, debit, debit * 100,
                   RatZero, l.delta - s.delta,
                   <<Leg("BUY", "CALL", l.strike),
                     Leg("SELL", "CALL", s.strike)>>)>>
        ELSE <<>>

\* Variant: no strike ordering between the two legs.
ValidShorts_any(shorts, l) == shorts

ValidShorts(shorts, l) == SelectSeq(shorts, LAMBDA s : s.strike > l.strike)

PmccOpps(c_far, c_near, near, far, near_days) ==
    LET longs == SelectSeq(c_far, LAMBDA x : x.delta > 80)
        shorts == SelectSeq(c_near, LAMBDA x : x.delta > 20 /\ x.delta < 40)
    IN  FlattenSeq([a \in 1..Len(longs) |->
            LET valid_shorts == ValidShorts(shorts, longs[a])
            IN  FlattenSeq([b \in 1..Len(valid_shorts) |->
                    PmccPair(longs[a], valid_shorts[b], near, far, near_days)])])

CalendarOpps(c_far, c_near, near, far, near_days) ==
    LET atm == SelectSeq(c_near, LAMBDA x : Abs(x.delta - 50) < 10)
    IN  FlattenSeq([a \in 1..Len(atm) |->
            LET k == atm[a].strike
                l == SelectSeq(c_far, LAMBDA x : x.strike = k)
                s == SelectSeq(c_near, LAMBDA x : x.strike = k)
            IN  IF l # <<>> /\ s # <<>>
                THEN LET debit == l[1].ask - s[1].bid
                     IN  IF debit > 0
                         THEN <<Opp(ShortLongStr(near, far), near_days, debit,
                                    debit * 100, RatZero, 0,
                                    <<Leg("SELL", "CALL", k),
                                      Leg("BUY", "CALL", k)>>)>>
                         ELSE <<>>
                ELSE <<>>])

CrossOpps(code, c_far, c_near, near, far, near_days) ==
    IF code = "PMCC" THEN PmccOpps(c_far, c_near, near, far, near_days)
    ELSE CalendarOpps(c_far, c_near, near, far, near_days)

-----------------------------------------------------------------------------
(* The same-expiration branch *)

\* Variant: the windows lose their lower ends.
InWindow_nofloor(code, days) ==
    IF code \in {"LEAPS_CALL"} THEN days > 180
    ELSE IF code \in {"CSP", "CC", "BULL_PUT", "IRON_CONDOR", "JADE_LIZARD"}
    THEN days <= 60
    ELSE days <= 45

InWindow(code, days) ==
    IF code \in {"LEAPS_CALL"} THEN days > 180
    ELSE IF code \in {"CSP", "CC", "BULL_PUT", "IRON_CONDOR", "JADE_LIZARD"}
    THEN 14 <= days /\ days <= 60
    ELSE 7 <= days /\ days <= 45

TargetDates(code) == SelectSeq(date_map, LAMBDA d : InWindow(code, d.days))

\* The processed chain of one expiration, restricted to the strike bounds.
Calls(src, days, price, pct) ==
    InBounds(process_chain(src.calls, days, "call"), price, pct)

Puts(src, days, price, pct) ==
    InBounds(process_chain(src.puts, days, "put"), price, pct)

\* Whether the body of the try block raises for this expiration.
Raises(code, src, days, price, pct) ==
    \/ src.raises
    \/ /\ code = "STRADDLE"
       /\ StraddleRaises(Calls(src, days, price, pct), Puts(src, days, price, pct))

\* What one expiration contributes when its try block completes.
ExpirationOpps(code, src, date, days, price, pct, width) ==
    StrategyOpps(code, Calls(src, days, price, pct), Puts(src, days, price, pct),
                 date, days, price, width * 100)

\* Variant: an exception drops what earlier expirations collected.
ScanStep_discard(opps, code, src, date, days, price, pct, width) ==
    IF Raises(code, src, days, price, pct)
    THEN <<>>
    ELSE opps \o ExpirationOpps(code, src, date, days, price, pct, width)

\* One pass of the loop body, "except: continue" included.
ScanStep(opps, code, src, date, days, price, pct, width) ==
    IF Raises(code, src, days, price, pct)
    THEN opps
    ELSE opps \o ExpirationOpps(code, src, date, days, price, pct, width)

-----------------------------------------------------------------------------
(* Return values, annualisation, best pick, earnings check *)

Ret(none, df, price, err) ==
    [df_none |-> none, df |-> df, current_price |-> price, error |-> err]

Annualized(x) ==
    IF RatPos(x.roi)
    THEN Rat(x.roi.n * 365, x.roi.d * x.days_to_exp)
    ELSE RatZero

WithAnnualized(x) ==
    [expiration_date |-> x.expiration_date, days_to_exp |-> x.days_to_exp,
     price_display |-> x.price_display, capital |-> x.capital, roi |-> x.roi,
     delta |-> x.delta, legs |-> x.legs, annualized_return |-> Annualized(x)]

DataFrame(opps) == [k \in 1..Len(opps) |-> WithAnnualized(opps[k])]

\* Variant: the income category sorted by roi.
SortKey_roi(cat, x) ==
    IF cat \in {"Income", "Speculation"} THEN x.roi
    ELSE Rat(x.price_display, 1)

\* The column each category sorts by.
SortKey(cat, x) ==
    IF cat = "Income" THEN x.annualized_return
    ELSE IF cat = "Speculation" THEN x.roi
    ELSE Rat(x.price_display, 1)

RECURSIVE InsertDesc(_, _, _)
InsertDesc(sorted, x, cat) ==
    IF sorted = <<>> THEN <<x>>
    ELSE IF RatLess(SortKey(cat, Head(sorted)), SortKey(cat, x))
    THEN <<x>> \o sorted
    ELSE <<Head(sorted)>> \o InsertDesc(Tail(sorted), x, cat)

\* df.sort_values(column, ascending=False)
RECURSIVE SortValuesDesc(_, _)
SortValuesDesc(df, cat) ==
    IF df = <<>> THEN <<>>
    ELSE InsertDesc(SortValuesDesc(SubSeq(df, 1, Len(df) - 1), cat),
                    df[Len(df)], cat)

Head1(df) == SubSeq(df, 1, Min(1, Len(df)))

BestPick(cat, df) ==
    IF cat \in {"Income", "Speculation", "Advanced"}
    THEN Head1(SortValuesDesc(df, cat))
    ELSE Head1(df)

\* Variant: the part before the separator, i.e. the near expiration.
ExpStr_near(expiration_date) ==
    LET cut == IF \E k \in 1..Len(expiration_date) : expiration_date[k] = Lit(" / ")
               THEN CHOOSE k \in 1..Len(expiration_date) :
                       /\ expiration_date[k] = Lit(" / ")
                       /\ \A j \in 1..(k - 1) : expiration_date[j] # Lit(" / ")
               ELSE Len(expiration_date) + 1
    IN  Replace(Replace(SubSeq(expiration_date, 1, cut - 1), "Near: "), "Short: ")

\* The date string the earnings check parses out of expiration_date.
ExpStr(expiration_date) ==
    Replace(Replace(LastPart(expiration_date), "Far: "), "Long: ")

EarningsCheck(r, earnings) ==
    IF earnings.known
    THEN IF CanParse(ExpStr(r.expiration_date))
         THEN IF earnings.date <= ParseDate(ExpStr(r.expiration_date))
              THEN "warning"
              ELSE "success"
         ELSE "none"
    ELSE "none"

-----------------------------------------------------------------------------
(* Actions *)

\* Lines 74-97 and 138-149: price, expirations, date map, branch selection.
Start ==
    /\ pc = "begin"
    /\ IF history_empty
       THEN /\ result' = Ret(TRUE, <<>>, 0, ErrNoPrice)
            /\ pc' = "returned"
            /\ UNCHANGED target_dates
       ELSE IF expirations = <<>>
       THEN /\ result' = Ret(TRUE, <<>>, current_price, ErrNoChain)
            /\ pc' = "returned"
            /\ UNCHANGED target_dates
       ELSE IF strat_code \in {"PMCC", "CALENDAR"}
       THEN /\ pc' = "cross"
            /\ UNCHANGED <<result, target_dates>>
       ELSE /\ target_dates' = TargetDates(strat_code)
            /\ pc' = IF TargetDates(strat_code) = <<>> THEN "collected" ELSE "same"
            /\ UNCHANGED result
    /\ UNCHANGED <<inputs, i, far_d, near_d, all_opps, best, earnings_msg,
                   delta_call>>

\* Lines 94-135: the PMCC / CALENDAR branch; a raising fetch reaches line 314.
CrossExpiry ==
    /\ pc = "cross"
    /\ LET far_dates == FarDates(strat_code)
           near_dates == NearDates
       IN  IF far_dates # <<>> /\ near_dates # <<>>
           THEN LET far == far_dates[1]
                    near == near_dates[1]
                IN  /\ far_d' = far.date
                    /\ near_d' = near.date
                    /\ IF chain[far.date].raises \/ chain[near.date].raises
                       THEN /\ result' = Ret(TRUE, <<>>, 0, ErrApi)
                            /\ pc' = "returned"
                            /\ UNCHANGED all_opps
                       ELSE /\ all_opps' = all_opps \o CrossOpps(strat_code,
                                   process_chain(chain[far.date].calls, far.days, "call"),
                                   process_chain(chain[near.date].calls, near.days, "call"),
                                   near.date, far.date, near.days)
                            /\ pc' = "collected"
                            /\ UNCHANGED result
           ELSE /\ pc' = "collected"
                /\ UNCHANGED <<far_d, near_d, all_opps, result>>
    /\ UNCHANGED <<inputs, target_dates, i, best, earnings_msg, delta_call>>

\* Lines 151-306: one iteration of the loop over target_dates.
ScanExpiration ==
    /\ pc = "same"
    /\ i <= Len(target_dates)
    /\ all_opps' = ScanStep(all_opps, strat_code, chain[target_dates[i].date],
                            target_dates[i].date, target_dates[i].days,
                            current_price, strike_range_pct, spread_width)
    /\ i' = i + 1
    /\ pc' = IF i = Len(target_dates) THEN "collected" ELSE "same"
    /\ UNCHANGED <<inputs, target_dates, far_d, near_d, result, best, earnings_msg,
                   delta_call>>

\* Lines 308-312: the no-candidate return, or the annualised table.
Finish ==
    /\ pc = "collected"
    /\ result' = IF all_opps = <<>>
                 THEN Ret(TRUE, <<>>, current_price, ErrNoOpps)
                 ELSE Ret(FALSE, DataFrame(all_opps), current_price, ErrNone)
    /\ pc' = "returned"
    /\ UNCHANGED <<inputs, target_dates, i, far_d, near_d, all_opps, best,
                   earnings_msg, delta_call>>

\* Lines 370-395: error display, or best pick and earnings-risk check.
Render ==
    /\ pc = "returned"
    /\ IF result.error # ErrNone
       THEN /\ best' = <<>>
            /\ earnings_msg' = "none"
       ELSE /\ best' = BestPick(category, result.df)
            /\ earnings_msg' = IF BestPick(category, result.df) # <<>>
                               THEN EarningsCheck(BestPick(category, result.df)[1],
                                                  next_earnings)
                               ELSE "none"
    /\ pc' = "rendered"
    /\ UNCHANGED <<inputs, target_dates, i, far_d, near_d, all_opps, result,
                   delta_call>>

-----------------------------------------------------------------------------
(* Inputs: what the data source may answer *)

MaxExp == 2

MaxWidth == 2

DefaultWidth == 5

Row(k, b, a, oi, iv, c) ==
    [strike |-> k, bid |-> b, ask |-> a, openInterest |-> oi,
     impliedVolatility |-> iv, cdf_d1 |-> c]

\* A liquid row with a positive implied volatility.
Q(k, b, a, c) == Row(k, b, a, 50, 30, c)

\* Chains with ascending strikes: one choice (a row or nothing) per position.
RECURSIVE ChainsFrom(_)
ChainsFrom(opts) ==
    IF opts = <<>> THEN {<<>>}
    ELSE {h \o t : h \in Head(opts), t \in ChainsFrom(Tail(opts))}

\* Black-Scholes with r > 0: a strike at or below spot has norm.cdf(d1) > 0.5.
Feasible(df, price) ==
    \A k \in 1..Len(df) : df[k].strike <= price => df[k].cdf_d1 > 50

RaisingChain == [raises |-> TRUE, calls |-> <<>>, puts |-> <<>>]

Sources(callChains, putChains) ==
    {[raises |-> FALSE, calls |-> c, puts |-> p] : c \in callChains, p \in putChains}

\* Ascending lists of at most n of the given dates.
AscLists(dates, n) ==
    {l \in UNION {[1..m -> dates] : m \in 0..n} :
        \A a, b \in 1..Len(l) : a < b => l[a] < l[b]}

NoEarnings == [known |-> FALSE, date |-> 0]

Earnings(d) == [known |-> TRUE, date |-> d]

\* Single-leg codes and the straddle: two strikes per side.
ScanCalls(code) ==
    CASE code = "CC" ->
           ChainsFrom(<<{<<>>, <<Q(10500, 120, 130, 30)>>,
                          <<Row(10500, 120, 130, 5, 30, 30)>>},
                        {<<>>, <<Q(11000, 60, 70, 20)>>,
                          <<Q(11000, 60, 70, 15)>>}>>)
      [] code = "LONG_CALL" ->
           ChainsFrom(<<{<<>>, <<Q(10000, 300, 310, 55)>>,
                          <<Q(10000, 0, 310, 55)>>},
                        {<<>>, <<Q(10500, 120, 130, 45)>>,
                          <<Q(10500, 120, 130, 40)>>}>>)
      [] code = "LEAPS_CALL" ->
           ChainsFrom(<<{<<>>, <<Q(9000, 1500, 1520, 90)>>,
                          <<Row(9000, 1500, 1520, 50, 0, 90)>>},
                        {<<>>, <<Q(9500, 1100, 1120, 86)>>,
                          <<Q(9500, 1100, 1120, 85)>>}>>)
      [] code = "STRADDLE" ->
           ChainsFrom(<<{<<>>, <<Q(10000, 300, 310, 55)>>},
                        {<<>>, <<Q(10500, 120, 130, 45)>>}>>)
      [] OTHER -> {<<>>}

ScanPuts(code) ==
    CASE code = "CSP" ->
           ChainsFrom(<<{<<>>, <<Q(9000, 60, 70, 84)>>,
                          <<Row(9000, 60, 70, 50, 0, 84)>>},
                        {<<>>, <<Q(9500, 100, 110, 75)>>,
                          <<Row(9500, 100, 110, 6, 30, 65)>>}>>)
      [] code = "LONG_PUT" ->
           ChainsFrom(<<{<<>>, <<Q(10000, 290, 300, 55)>>,
                          <<Q(10000, 290, 300, 60)>>},
                        {<<>>, <<Q(10500, 600, 620, 45)>>}>>)
      [] code = "STRADDLE" ->
           ChainsFrom(<<{<<>>, <<Q(9500, 100, 110, 60)>>},
                        {<<>>, <<Q(10000, 290, 300, 52)>>}>>)
      [] OTHER -> {<<>>}

ScanSources(code) ==
    {RaisingChain} \cup Sources(ScanCalls(code), ScanPuts(code))

ScanCodes == {"CSP", "CC", "LONG_CALL", "LONG_PUT", "LEAPS_CALL", "STRADDLE"}

\* Multi-leg codes: one expiration, richer chains.
BuildCalls(code) ==
    CASE code = "BEAR_CALL" ->
           ChainsFrom(<<{<<>>, <<Q(10500, 80, 90, 30)>>, <<Q(10500, 150, 160, 30)>>,
                          <<Q(10500, 80, 90, 40)>>},
                        {<<>>, <<Q(10595, 40, 50, 22)>>, <<Q(10600, 40, 50, 22)>>,
                          <<Q(10610, 40, 50, 22)>>},
                        {<<>>, <<Q(10700, 20, 30, 15)>>}>>)
      [] code = "IRON_CONDOR" ->
           ChainsFrom(<<{<<>>, <<Q(10600, 60, 70, 20)>>, <<Q(10600, 120, 130, 20)>>},
                        {<<>>, <<Q(10700, 30, 40, 16)>>},
                        {<<>>, <<Q(10800, 10, 20, 10)>>}>>)
      [] code = "JADE_LIZARD" ->
           ChainsFrom(<<{<<>>, <<Q(10500, 90, 100, 28)>>},
                        {<<>>, <<Q(10600, 60, 70, 24)>>},
                        {<<>>, <<Q(10700, 30, 30, 18)>>}>>)
      [] code = "RATIO" ->
           ChainsFrom(<<{<<>>, <<Q(9900, 350, 360, 62)>>},
                        {<<>>, <<Q(10000, 290, 300, 58)>>},
                        {<<>>, <<Q(10050, 260, 270, 50)>>},
                        {<<>>, <<Q(10100, 240, 250, 45)>>,
                          <<Q(10100, 100, 110, 45)>>}>>)
      [] code = "STRADDLE" ->
           ChainsFrom(<<{<<>>, <<Q(9900, 350, 360, 62)>>},
                        {<<>>, <<Q(10000, 290, 300, 55)>>,
                          <<Q(10000, 0, 300, 55)>>},
                        {<<>>, <<Q(10100, 240, 250, 47)>>}>>)
      [] OTHER -> {<<>>}

BuildPuts(code) ==
    CASE code = "BULL_PUT" ->
           ChainsFrom(<<{<<>>, <<Q(9210, 10, 20, 90)>>},
                        {<<>>, <<Q(9300, 20, 30, 85)>>, <<Q(9300, 20, 40, 85)>>,
                          <<Q(9300, 30, 40, 79)>>},
                        {<<>>, <<Q(9400, 40, 50, 78)>>, <<Q(9405, 40, 50, 78)>>,
                          <<Q(9410, 40, 50, 78)>>},
                        {<<>>, <<Q(9500, 80, 90, 70)>>, <<Q(9500, 150, 160, 70)>>,
                          <<Q(9500, 170, 180, 70)>>, <<Q(9500, 80, 90, 60)>>}>>)
      [] code = "IRON_CONDOR" ->
           ChainsFrom(<<{<<>>, <<Q(9100, 10, 20, 85)>>},
                        {<<>>, <<Q(9200, 40, 50, 84)>>},
                        {<<Q(9300, 70, 80, 82)>>},
                        {<<Q(9400, 100, 110, 80)>>},
                        {<<>>, <<Q(9500, 140, 150, 78)>>,
                          <<Q(9500, 120, 130, 78)>>}>>)
      [] code = "JADE_LIZARD" ->
           ChainsFrom(<<{<<>>, <<Q(9500, 100, 110, 75)>>, <<Q(9500, 20, 30, 75)>>},
                        {<<>>, <<Q(9600, 130, 140, 72)>>}>>)
      [] code = "STRADDLE" ->
           ChainsFrom(<<{<<>>, <<Q(9900, 230, 240, 58)>>},
                        {<<>>, <<Q(10000, 280, 290, 53)>>,
                          <<Row(10000, 280, 290, 5, 30, 53)>>},
                        {<<>>, <<Q(10100, 340, 350, 44)>>}>>)
      [] OTHER -> {<<>>}

BuildSources(code) == Sources(BuildCalls(code), BuildPuts(code))

BuildCodes == {"BULL_PUT", "BEAR_CALL", "IRON_CONDOR", "JADE_LIZARD", "RATIO",
               "STRADDLE"}

\* PMCC / CALENDAR read the calls of two expirations.
CrossSources ==
    {RaisingChain} \cup
    Sources(ChainsFrom(<<{<<>>, <<Q(9000, 1090, 1100, 90)>>,
                           <<Q(9000, 1690, 1700, 90)>>},
                         {<<Q(10000, 290, 300, 55)>>},
                         {<<>>, <<Q(10500, 100, 110, 30)>>,
                           <<Q(10500, 600, 610, 30)>>},
                         {<<>>, <<Q(11000, 40, 50, 85)>>}>>),
            {<<>>})

\* The sidebar: the width slider exists for the spread codes only.
Widths(code) ==
    IF code \in {"BULL_PUT", "BEAR_CALL", "IRON_CONDOR", "JADE_LIZARD", "RATIO"}
    THEN 1..MaxWidth
    ELSE {DefaultWidth}

NoCall == [state |-> "idle", S |-> 0, K |-> 0, T_days |-> 0, sigma |-> 0,
           option_type |-> "call", cdf_d1 |-> 0, ret |-> Num(0)]

InitControl ==
    /\ pc = "begin"
    /\ target_dates = <<>>
    /\ i = 1
    /\ far_d = today
    /\ near_d = today
    /\ all_opps = <<>>
    /\ result = Ret(TRUE, <<>>, 0, "pending")
    /\ best = <<>>
    /\ earnings_msg = "none"
    /\ delta_call = NoCall

\* No price history: nothing else is read.
InitNoHistory(codes) ==
    /\ strat_code \in codes
    /\ spread_width \in Widths(strat_code)
    /\ strike_range_pct = 20
    /\ history_empty = TRUE
    /\ current_price = 0
    /\ next_earnings = NoEarnings
    /\ expirations = <<>>
    /\ chain = <<>>
    /\ today = 100
    /\ InitControl

InitWith(codes, pcts, earnings, lists, src) ==
    /\ strat_code \in codes
    /\ spread_width \in Widths(strat_code)
    /\ strike_range_pct \in pcts
    /\ history_empty = FALSE
    /\ current_price = 10000
    /\ today = 100
    /\ next_earnings \in earnings
    /\ expirations \in lists
    /\ chain \in [Range(expirations) -> src[strat_code]]
    /\ \A d \in Range(expirations) :
          Feasible(chain[d].calls, current_price) /\ Feasible(chain[d].puts, current_price)
    /\ InitControl

InitScan ==
    \/ InitNoHistory(ScanCodes)
    \/ InitWith(ScanCodes, {5, 20}, {NoEarnings, Earnings(130)},
                AscLists({110, 130, 150, 300}, MaxExp),
                [c \in ScanCodes |-> ScanSources(c)])

InitBuild ==
    InitWith(BuildCodes, {20}, {NoEarnings, Earnings(130)}, {<<130>>},
             [c \in BuildCodes |-> BuildSources(c)])

InitCross ==
    \/ InitNoHistory(TimeCodes)
    \/ InitWith(TimeCodes, {20},
                {NoEarnings, Earnings(130), Earnings(160), Earnings(350)},
                AscLists({130, 140, 200, 300}, MaxExp),
                [c \in TimeCodes |-> CrossSources])

Init == InitScan \/ InitBuild \/ InitCross

\* Every code on one chain that yields candidates; expirations past, today and
\* on both sides of every window end.
WindowCalls(code) ==
    CASE code = "CC" -> <<Q(10500, 120, 130, 30)>>
      [] code = "LONG_CALL" -> <<Q(10000, 300, 310, 55)>>
      [] code = "LEAPS_CALL" -> <<Q(9000, 1500, 1520, 90)>>
      [] code = "STRADDLE" -> <<Q(10000, 300, 310, 55)>>
      [] code = "BEAR_CALL" -> <<Q(10500, 80, 90, 30), Q(10600, 40, 50, 22)>>
      [] code = "IRON_CONDOR" -> <<Q(10600, 60, 70, 20), Q(10700, 30, 40, 16)>>
      [] code = "JADE_LIZARD" -> <<Q(10500, 90, 100, 28), Q(10600, 60, 70, 24)>>
      [] code = "RATIO" -> <<Q(9900, 350, 360, 62), Q(10000, 290, 300, 58)>>
      [] code = "PMCC" -> <<Q(9000, 1090, 1100, 90), Q(10500, 100, 110, 30)>>
      [] code = "CALENDAR" -> <<Q(10000, 290, 300, 55)>>
      [] OTHER -> <<>>

WindowPuts(code) ==
    CASE code = "CSP" -> <<Q(9500, 100, 110, 75)>>
      [] code = "LONG_PUT" -> <<Q(10000, 290, 300, 55)>>
      [] code = "STRADDLE" -> <<Q(10000, 290, 300, 52)>>
      [] code = "BULL_PUT" -> <<Q(9400, 40, 50, 78), Q(9500, 80, 90, 70)>>
      [] code = "IRON_CONDOR" -> <<Q(9400, 100, 110, 80), Q(9500, 140, 150, 78)>>
      [] code = "JADE_LIZARD" -> <<Q(9500, 100, 110, 75)>>
      [] OTHER -> <<>>

WindowSources(code) == Sources({WindowCalls(code)}, {WindowPuts(code)})

WindowDates == {90, 100, 106, 107, 113, 114, 119, 120, 145, 146, 160, 161,
                250, 251, 280, 281}

InitWindow ==
    InitWith(AllCodes, {20}, {NoEarnings}, AscLists(WindowDates, MaxExp),
             [c \in AllCodes |-> WindowSources(c)])

\* A call of the pricing primitive on its own, degenerate arguments included.
InitDelta ==
    /\ delta_call \in
          {[state |-> "called", S |-> S, K |-> K, T_days |-> T, sigma |-> sg,
            option_type |-> ty, cdf_d1 |-> c, ret |-> Num(0)] :
             S \in {-10000, 0, 10000}, K \in {-9500, 0, 9500, 10500},
             T \in {-1, 0, 30}, sg \in {-30, 0, 30}, ty \in {"call", "put"},
             c \in {30, 70}}
    /\ (delta_call.K <= delta_call.S) => delta_call.cdf_d1 > 50
    /\ strat_code = "CSP"
    /\ spread_width = DefaultWidth
    /\ strike_range_pct = 20
    /\ history_empty = FALSE
    /\ current_price = delta_call.S
    /\ today = 100
    /\ next_earnings = NoEarnings
    /\ expirations = <<>>
    /\ chain = <<>>
    /\ pc = "pricing"
    /\ target_dates = <<>>
    /\ i = 1
    /\ far_d = today
    /\ near_d = today
    /\ all_opps = <<>>
    /\ result = Ret(TRUE, <<>>, 0, "pending")
    /\ best = <<>>
    /\ earnings_msg = "none"

\* Lines 32-36: one evaluation of black_scholes_delta.
EvalDelta ==
    /\ delta_call.state = "called"
    /\ delta_call' = [delta_call EXCEPT
          !.state = "returned",
          !.ret = black_scholes_delta_float(delta_call.S, delta_call.K,
                      delta_call.T_days, delta_call.sigma,
                      delta_call.option_type, delta_call.cdf_d1)]
    /\ UNCHANGED <<inputs, pc, target_dates, i, far_d, near_d, all_opps, result,
                   best, earnings_msg>>

NextDelta == EvalDelta

SpecDelta == InitDelta /\ [][NextDelta]_vars

NextSame == Start \/ ScanExpiration \/ Finish \/ Render

NextCross == Start \/ CrossExpiry \/ Finish \/ Render

Next == Start \/ CrossExpiry \/ ScanExpiration \/ Finish \/ Render

SpecScan == InitScan /\ [][NextSame]_vars

SpecBuild == InitBuild /\ [][NextSame]_vars

SpecCross == InitCross /\ [][NextCross]_vars

Spec == Init /\ [][Next]_vars

SpecWindow == InitWindow /\ [][Next]_vars

-----------------------------------------------------------------------------
(* Vocabulary of the properties *)

Returned == pc \in {"returned", "rendered"}

TargetIdx == 1..Len(target_dates)

StepRaises(k) ==
    Raises(strat_code, chain[target_dates[k].date], target_dates[k].days,
           current_price, strike_range_pct)

StepOpps(k) ==
    ExpirationOpps(strat_code, chain[target_dates[k].date],
                   target_dates[k].date, target_dates[k].days, current_price,
                   strike_range_pct, spread_width)

StepCalls(k) ==
    Calls(chain[target_dates[k].date], target_dates[k].days, current_price,
          strike_range_pct)

StepPuts(k) ==
    Puts(chain[target_dates[k].date], target_dates[k].days, current_price,
         strike_range_pct)

Yields(k) == ~StepRaises(k) /\ StepOpps(k) # <<>>

\* A table row carries the candidate c.
IsRowOf(row, c) ==
    /\ row.expiration_date = c.expiration_date
    /\ row.days_to_exp = c.days_to_exp
    /\ row.price_display = c.price_display
    /\ row.capital = c.capital
    /\ row.roi = c.roi
    /\ row.delta = c.delta
    /\ row.legs = c.legs

RatEqual(a, b) == a.n * b.d = b.n * a.d

WidthCents == spread_width * 100

\* What the two-expiration branch can yield from the listed expirations.
CrossYield ==
    IF FarDates(strat_code) # <<>> /\ NearDates # <<>>
    THEN LET far == FarDates(strat_code)[1]
             near == NearDates[1]
         IN  IF chain[far.date].raises \/ chain[near.date].raises
             THEN <<>>
             ELSE CrossOpps(strat_code,
                            process_chain(chain[far.date].calls, far.days, "call"),
                            process_chain(chain[near.date].calls, near.days, "call"),
                            near.date, far.date, near.days)
    ELSE <<>>

-----------------------------------------------------------------------------
(* C1: in a same-expiration scan where at least one expiration completes    *)
(* with candidates, the scan returns error = None and a table holding every *)
(* candidate of every expiration that did not raise, whatever expirations   *)
(* raised before or after it.                                               *)
C1_PartialScanSucceeds ==
    (Returned /\ strat_code \notin TimeCodes /\ \E k \in TargetIdx : Yields(k))
    => /\ result.error = ErrNone
       /\ ~result.df_none
       /\ \A k \in TargetIdx :
             ~StepRaises(k) =>
                \A c \in Range(StepOpps(k)) :
                   \E r \in 1..Len(result.df) : IsRowOf(result.df[r], c)

\* An expiration yielded candidates and a later one raised.
C1_Witness ==
    /\ Returned
    /\ result.error = ErrNone
    /\ \E a, b \in TargetIdx : a < b /\ Yields(a) /\ StepRaises(b)

(* C2: with a spot price and a non-empty expiration list, a scan in which   *)
(* no expiration yields a candidate returns (None, spot, no-candidates      *)
(* message), for every strategy code; and no return has error = None with   *)
(* an empty table.                                                          *)
C2_NoOpportunitiesOutcome ==
    /\ (/\ Returned
        /\ ~history_empty
        /\ expirations # <<>>
        /\ IF strat_code \in TimeCodes
           THEN CrossYield = <<>>
           ELSE \A k \in TargetIdx : ~Yields(k))
       => result = Ret(TRUE, <<>>, current_price, ErrNoOpps)
    /\ (Returned /\ result.error = ErrNone) => result.df # <<>>

(* C3: every credit vertical spread candidate has net = short.bid -         *)
(* long.ask, capital = (width - net) * 100, and capital > 0.                *)
C3_SpreadCapitalPositive ==
    strat_code \in {"BULL_PUT", "BEAR_CALL"} =>
        \A c \in Range(all_opps) :
           /\ c.capital = (WidthCents - c.price_display) * 100
           /\ c.capital > 0
           /\ \E k \in TargetIdx :
                 LET pool == IF strat_code = "BULL_PUT" THEN StepPuts(k)
                             ELSE StepCalls(k)
                 IN  \E s, l \in Range(pool) :
                        /\ s.strike = c.legs[1].strike
                        /\ l.strike = c.legs[2].strike
                        /\ c.price_display = s.bid - l.ask

(* C4: an anchor with no pool leg within the match tolerance of its target  *)
(* strike gets no record; every record has exactly two legs, SELL at the    *)
(* anchor strike and BUY at a pool strike within tolerance of the target.   *)
C4_Pool(k) == IF strat_code = "BULL_PUT" THEN StepPuts(k) ELSE StepCalls(k)

C4_Anchors(k) ==
    IF strat_code = "BULL_PUT" THEN BullPutShorts(StepPuts(k))
    ELSE BearCallShorts(StepCalls(k))

C4_TargetOf(s) ==
    IF strat_code = "BULL_PUT" THEN s.strike - WidthCents ELSE s.strike + WidthCents

C4_NoSpuriousLeg ==
    strat_code \in {"BULL_PUT", "BEAR_CALL"} =>
        \A k \in TargetIdx :
           /\ \A s \in Range(C4_Anchors(k)) :
                 (~\E l \in Range(C4_Pool(k)) :
                      Abs(l.strike - C4_TargetOf(s)) < MatchTol)
                 => ~\E c \in Range(all_opps) :
                        /\ c.days_to_exp = target_dates[k].days
                        /\ c.legs[1].strike = s.strike
           /\ \A c \in Range(all_opps) :
                 c.days_to_exp = target_dates[k].days =>
                    /\ Len(c.legs) = 2
                    /\ c.legs[1].side = "SELL"
                    /\ c.legs[2].side = "BUY"
                    /\ \E s \in Range(C4_Anchors(k)) :
                          /\ c.legs[1].strike = s.strike
                          /\ \E l \in Range(C4_Pool(k)) :
                                /\ l.strike = c.legs[2].strike
                                /\ Abs(l.strike - C4_TargetOf(s)) < MatchTol

\* One anchor has no leg within tolerance while another produced a record.
C4_Witness ==
    /\ strat_code \in {"BULL_PUT", "BEAR_CALL"}
    /\ all_opps # <<>>
    /\ \E k \in TargetIdx :
          \E s \in Range(C4_Anchors(k)) :
             /\ ~\E l \in Range(C4_Pool(k)) :
                    Abs(l.strike - C4_TargetOf(s)) < MatchTol
             /\ \E l \in Range(C4_Pool(k)) :
                    Abs(l.strike - C4_TargetOf(s)) = MatchTol

(* C5: every PMCC candidate buys the far call and sells a near call of a    *)
(* strictly higher strike, and its net debit long.ask - short.bid is        *)
(* strictly below the strike difference.                                    *)
C5_FarCalls == process_chain(chain[far_d].calls, Days(far_d), "call")

C5_NearCalls == process_chain(chain[near_d].calls, Days(near_d), "call")

C5_DiagonalSound ==
    strat_code = "PMCC" =>
        \A c \in Range(all_opps) :
           /\ Len(c.legs) = 2
           /\ c.legs[1].side = "BUY"
           /\ c.legs[2].side = "SELL"
           /\ c.legs[2].strike > c.legs[1].strike
           /\ c.price_display < c.legs[2].strike - c.legs[1].strike
           /\ \E l \in Range(C5_FarCalls), s \in Range(C5_NearCalls) :
                 /\ l.strike = c.legs[1].strike
                 /\ s.strike = c.legs[2].strike
                 /\ c.price_display = l.ask - s.bid

\* A candidate exists, and a deep long sat at or above an eligible short.
C5_Witness ==
    /\ strat_code = "PMCC"
    /\ all_opps # <<>>
    /\ \E l \in Range(C5_FarCalls), s \in Range(C5_NearCalls) :
          /\ l.delta > 80
          /\ s.delta > 20 /\ s.delta < 40
          /\ s.strike <= l.strike
          /\ l.ask - s.bid < s.strike - l.strike

(* C6: every STRADDLE candidate has its call leg and its put leg at the     *)
(* same strike.                                                             *)
C6_StraddleSameStrike ==
    strat_code = "STRADDLE" =>
        \A c \in Range(all_opps) : c.legs[1].strike = c.legs[2].strike

(* C7: in the returned table annualized_return = roi * 365 / days_to_exp    *)
(* for CSP, CC, credit verticals and iron condors, and annualized_return is *)
(* 0 for every candidate of every other strategy.                           *)
C7_AnnualizeOnlyReturns ==
    (Returned /\ result.error = ErrNone) =>
        \A r \in 1..Len(result.df) :
           LET x == result.df[r]
           IN  IF strat_code \in IncomeCodes
               THEN RatEqual(x.annualized_return,
                             Rat(x.roi.n * 365, x.roi.d * x.days_to_exp))
               ELSE x.annualized_return = RatZero

(* C8: for an income strategy the best pick has the largest                 *)
(* annualized_return of the table, for JADE_LIZARD / RATIO the largest      *)
(* price_display.                                                           *)
C8_Key(x) ==
    IF strat_code \in IncomeCodes THEN x.annualized_return
    ELSE Rat(x.price_display, 1)

C8_BestPickMaximal ==
    (pc = "rendered" /\ result.error = ErrNone
       /\ strat_code \in IncomeCodes \cup AdvancedCodes)
    => /\ Len(best) = 1
       /\ \E r \in 1..Len(result.df) : result.df[r] = best[1]
       /\ \A r \in 1..Len(result.df) : RatLeq(C8_Key(result.df[r]), C8_Key(best[1]))

\* The best pick is not the first row and strictly beats it.
C8_Witness ==
    /\ pc = "rendered"
    /\ result.error = ErrNone
    /\ strat_code \in IncomeCodes
    /\ Len(best) = 1
    /\ RatLess(C8_Key(result.df[1]), C8_Key(best[1]))
    /\ \E a, b \in 1..Len(result.df) :
          result.df[a].days_to_exp # result.df[b].days_to_exp

(* C9 as stated: with a next-earnings date, the warning is shown iff that   *)
(* date is on or before the candidate's expiration, the nearer one for a    *)
(* PMCC / CALENDAR candidate; exactly one of warning / no-risk is shown.    *)
C9_NearerExpiration == today + best[1].days_to_exp

C9_WarningByNearerDate ==
    (pc = "rendered" /\ best # <<>> /\ next_earnings.known)
    => /\ earnings_msg \in {"warning", "success"}
       /\ earnings_msg = "warning" <=> next_earnings.date <= C9_NearerExpiration

(* C9 amended: the date compared is the candidate's expiration, and for a   *)
(* PMCC / CALENDAR candidate the farther of its two expirations.            *)
C9_FartherExpiration ==
    IF strat_code \in TimeCodes THEN far_d ELSE today + best[1].days_to_exp

C9_WarningByFartherDate ==
    (pc = "rendered" /\ best # <<>> /\ next_earnings.known)
    => /\ earnings_msg \in {"warning", "success"}
       /\ earnings_msg = "warning" <=> next_earnings.date <= C9_FartherExpiration

\* Earnings fall strictly between the two expirations and the warning shows.
C9_Witness ==
    /\ pc = "rendered"
    /\ best # <<>>
    /\ strat_code \in TimeCodes
    /\ next_earnings.known
    /\ near_d < next_earnings.date
    /\ next_earnings.date <= far_d
    /\ earnings_msg = "warning"

(* C10: every IRON_CONDOR candidate joins one put spread and one call       *)
(* spread of its expiration with net = put net + call net and capital =     *)
(* (width - net) * 100 > 0, and on each side no spread left out of the      *)
(* cross join has a higher ROI than one that is joined.                     *)
C10_TopByRoi(spr) ==
    \A a, b \in 1..Len(spr) :
       (spr[a] \in Range(Head3(spr)) /\ spr[b] \notin Range(Head3(spr)))
       => RatLeq(spr[b].roi, spr[a].roi)

C10_CondorTopThreeByRoi ==
    strat_code = "IRON_CONDOR" =>
        \A k \in TargetIdx :
           LET p_spr == CondorPutSpreads(StepPuts(k), WidthCents)
               c_spr == CondorCallSpreads(StepCalls(k), WidthCents)
           IN  /\ \A x \in Range(all_opps) :
                     x.days_to_exp = target_dates[k].days =>
                        /\ x.capital = (WidthCents - x.price_display) * 100
                        /\ x.capital > 0
                        /\ \E p \in Range(p_spr), c \in Range(c_spr) :
                              /\ x.legs = p.legs \o c.legs
                              /\ x.price_display = p.price_display + c.price_display
               /\ (pc # "begin" /\ p_spr # <<>> /\ c_spr # <<>>)
                  => C10_TopByRoi(p_spr) /\ C10_TopByRoi(c_spr)

(* C11: black_scholes_delta returns exactly 0, and neither NaN nor an       *)
(* infinity, for every degenerate input: T <= 0, or sigma <= 0, or a spot   *)
(* or strike for which ln(S / K) is undefined.                              *)
\* ln(S / K) is undefined: division by zero, or a quotient that is not positive.
C11_LogUndefined ==
    \/ delta_call.K = 0
    \/ delta_call.S = 0
    \/ (delta_call.S < 0) # (delta_call.K < 0)

C11_Degenerate ==
    \/ delta_call.T_days <= 0
    \/ delta_call.sigma <= 0
    \/ C11_LogUndefined

C11_DegenerateDeltaZero ==
    (delta_call.state = "returned" /\ C11_Degenerate)
    => delta_call.ret = Num(0)

(* C12: every candidate has days_to_exp inside the date window of its       *)
(* strategy (14..60 for CSP, CC, BULL_PUT, IRON_CONDOR, JADE_LIZARD; above  *)
(* 180 for LEAPS; 7..45 for the other same-expiration codes; the near       *)
(* expiration in 20..45 for PMCC and CALENDAR), so days_to_exp >= 7 and     *)
(* the annualisation never divides by zero, whatever expirations are listed.*)
C12_InsideWindow(d) ==
    /\ strat_code \in {"CSP", "CC", "BULL_PUT", "IRON_CONDOR", "JADE_LIZARD"}
         => 14 <= d /\ d <= 60
    /\ strat_code = "LEAPS_CALL" => d > 180
    /\ strat_code \in {"LONG_CALL", "LONG_PUT", "BEAR_CALL", "RATIO", "STRADDLE"}
         => 7 <= d /\ d <= 45
    /\ strat_code \in TimeCodes => 20 <= d /\ d <= 45
    /\ d >= 7

C12_DaysInsideWindow ==
    /\ \A c \in Range(all_opps) : C12_InsideWindow(c.days_to_exp)
    /\ \A r \in 1..Len(result.df) :
          /\ C12_InsideWindow(result.df[r].days_to_exp)
          /\ result.df[r].annualized_return.d # 0
    /\ Returned => result.error # ErrApi

\* A table was returned although a past or same-day expiration was listed.
C12_Witness ==
    /\ Returned
    /\ result.error = ErrNone
    /\ result.df # <<>>
    /\ \E k \in 1..Len(expirations) : expirations[k] <= today

====
